---- MODULE Spec2Model ----
(***************************************************************************)
(* The VPS lifecycle manager of src/bot.py: the in-memory registry         *)
(* vps_state, its pickle backup file, the Docker runtime it drives, and    *)
(* the slash-command handlers that act on them.                            *)
(*                                                                         *)
(* Strings the code computes with (labels, image references, container     *)
(* names) are sequences of one-character strings, so that lower(),         *)
(* isalnum() and the substring test are computed as the code computes      *)
(* them.  Message texts are tokens naming the literal message of the code. *)
(*                                                                         *)
(* A handler is written as an operator from the world it starts in (the    *)
(* registry, the backup file, the runtime) and its inputs to its outcome:  *)
(* the message it sends, the exception its try block ended with, the SDK   *)
(* calls it issued, and the world it leaves.  The action of the handler    *)
(* installs that world.                                                    *)
(*                                                                         *)
(* Scheduling: every handler is a coroutine on one event loop.  A handler  *)
(* runs without interruption between two awaits that suspend.  The         *)
(* handlers await interaction.response.defer() before they read any        *)
(* state, and await followup.send() as their last statement (slash_list    *)
(* awaits only the send_message that ends it); the Docker                  *)
(* SDK calls in status/start/stop/restart/delete/exec are plain blocking   *)
(* calls and member_is_admin holds no suspending await.  The only          *)
(* suspension inside a handler body is slash_create's                      *)
(* await asyncio.to_thread(...), so slash_create is two steps and every    *)
(* other handler is one.                                                   *)
(***************************************************************************)
EXTENDS Integers, Sequences, FiniteSets, Bags, TLC

VARIABLES
    vps_state,      \* bot.py:92   name -> record, the registry
    backup,         \* the content of BACKUP_FILE
    docker_client,  \* bot.py:80-85  "client", or "None" when the ping failed at import
    containers,     \* the runtime: container id -> [name, status]
    docker_ids,     \* the runtime: how many container ids it has handed out
    tasks,          \* bag of slash_create coroutines suspended at bot.py:239
    awaiting        \* per-name coroutines suspended at await member_is_admin(...)

vars == <<vps_state, backup, docker_client, containers, docker_ids, tasks, awaiting>>

----------------------------------------------------------------------------
(* Configuration (bot.py:44-63).  The limits are read from the environment; *)
(* the values here are a legal configuration small enough to reach.         *)

ADMIN_IDS == {3}
ADMIN_ROLE_ID == 7
MAX_VPS_PER_USER == 2
MAX_CONTAINERS == 2

MINER_PATTERNS ==
    { <<"x","m","r","i","g">>,
      <<"e","t","h","m","i","n","e","r">>,
      <<"c","g","m","i","n","e","r">>,
      <<"s","g","m","i","n","e","r">>,
      <<"b","f","g","m","i","n","e","r">>,
      <<"m","i","n","e","r","d">>,
      <<"c","p","u","m","i","n","e","r">>,
      <<"c","r","y","p","t","o","n","i","g","h","t">>,
      <<"s","t","r","a","t","u","m">>,
      <<"p","o","o","l">> }

(* Bounds of the model. *)
MaxPending == 2     \* slash_create coroutines suspended at the same time
MaxIds == 5         \* container ids the runtime hands out in one run

----------------------------------------------------------------------------
(* str.lower(), str.isalnum() and str(int) on the characters the model uses *)

UpperCase == <<"A","B","C","D","E","F","G","H","I","J","K","L","M",
               "N","O","P","Q","R","S","T","U","V","W","X","Y","Z">>
LowerCase == <<"a","b","c","d","e","f","g","h","i","j","k","l","m",
               "n","o","p","q","r","s","t","u","v","w","x","y","z">>
Digits == <<"0","1","2","3","4","5","6","7","8","9">>

Range(s) == { s[i] : i \in DOMAIN s }

lower_char(c) ==
    IF \E i \in DOMAIN UpperCase : UpperCase[i] = c
    THEN LowerCase[CHOOSE i \in DOMAIN UpperCase : UpperCase[i] = c]
    ELSE c

lower(s) == [i \in DOMAIN s |-> lower_char(s[i])]

isalnum(c) == c \in Range(UpperCase) \cup Range(LowerCase) \cup Range(Digits)

RECURSIVE str(_)
str(n) == IF n < 10 THEN <<Digits[n + 1]>>
          ELSE str(n \div 10) \o <<Digits[(n % 10) + 1]>>

(* patt in s *)
contains(patt, s) ==
    \E i \in 1..(Len(s) - Len(patt) + 1) : SubSeq(s, i, i + Len(patt) - 1) = patt

(* the owner id is left out of the name *)
safe_container_name_no_uid(base, uid) ==
    LET low == lower(<<"e","a","g","l","e","n","o","d","e","-">> \o base)
    IN  [i \in DOMAIN low |->
            IF isalnum(low[i]) \/ low[i] \in {"-", "_"} THEN low[i] ELSE "-"]

(* bot.py:134-138 *)
safe_container_name(base, uid) ==
    LET name == <<"e","a","g","l","e","n","o","d","e","-">> \o base \o <<"-">> \o str(uid)
        low  == lower(name)
    IN  [i \in DOMAIN low |->
            IF isalnum(low[i]) \/ low[i] \in {"-", "_"} THEN low[i] ELSE "-"]

(* the image reference is not lower-cased before the comparison *)
detect_malicious_image_cased(image) ==
    \E patt \in MINER_PATTERNS : contains(patt, image)

(* bot.py:140-143 *)
detect_malicious_image(image) ==
    \E patt \in MINER_PATTERNS : contains(patt, lower(image))

(* the member is fetched from the gateway before its roles are read: the    *)
(* coroutine waits for the answer                                           *)
member_is_admin_fetches == TRUE

(* bot.py:126-132: whether awaiting member_is_admin hands control back to   *)
(* the event loop.  Its body reads interaction.user and awaits nothing, so  *)
(* the await at bot.py:312, 333, 354, 375 and 404 runs it to its return     *)
(* without a suspension.                                                    *)
member_is_admin_suspends == FALSE

(* bot.py:126-132: the caller is [id, roles]; roles is empty for a plain User *)
member_is_admin(user) ==
    \/ user.id \in ADMIN_IDS
    \/ ADMIN_ROLE_ID \in user.roles

----------------------------------------------------------------------------
(* Inputs *)

(* A caller: Discord user id, guild roles, and whether the guild grants the *)
(* administrator permission that /backup and /restore require.              *)
Callers == { [id |-> 1, roles |-> {}, administrator |-> FALSE],
             [id |-> 2, roles |-> {}, administrator |-> FALSE],
             [id |-> 3, roles |-> {}, administrator |-> FALSE],
             [id |-> 4, roles |-> {ADMIN_ROLE_ID}, administrator |-> TRUE] }

(* the callers that issue /create *)
Creators == { c \in Callers : c.id \in {1, 2} }

Labels == { <<"a">>, <<"A">>, <<"b">>, <<"b","o","x">> }

DEFAULT_OS_IMAGE == <<"u","b","u","n","t","u",":","2","2",".","0","4">>
MinerImage ==
    <<"c","r","y","p","t","o","n","i","g","h","t","-","m","i","n","e","r",":",
      "l","a","t","e","s","t">>
XmrigImage == <<"r","e","g","/","X","M","R","i","g",":","6">>
CarpoolImage == <<"c","a","r","p","o","o","l">>

Images == { DEFAULT_OS_IMAGE, MinerImage, XmrigImage, CarpoolImage }

Ghost == <<"g","h","o","s","t">>

Ra1 == safe_container_name(<<"a">>, 1)
Rb1 == safe_container_name(<<"b">>, 1)
Ra2 == safe_container_name(<<"a">>, 2)

(* the names the per-name commands are invoked with *)
Names == { Ra1, Rb1, Ra2, Ghost }

(* Container ids of the runtime: the full id, and its prefix the short id. *)
ContainerId(k) == str(k) \o <<"f","f">>
ShortId(cid) == SubSeq(cid, 1, Len(cid) - 2)

(* a record of the registry, as slash_create builds it (bot.py:241-248) *)
Record(owner, image, created, id, short) ==
    [owner_id |-> owner, image |-> image, created_at |-> created,
     container_id |-> id, short_id |-> short, meta |-> <<>>]

EmptyState == [n \in {} |-> 0]

(* Registries an earlier process may have left in BACKUP_FILE, and the      *)
(* containers of the runtime that belong to them.                           *)
StateOf(names) ==
    [n \in names |->
        CASE n = Ra1 -> Record(1, DEFAULT_OS_IMAGE, 0, ContainerId(1), ShortId(ContainerId(1)))
          [] n = Rb1 -> Record(1, DEFAULT_OS_IMAGE, 0, ContainerId(2), ShortId(ContainerId(2)))
          [] n = Ra2 -> Record(2, DEFAULT_OS_IMAGE, 0, ContainerId(3), ShortId(ContainerId(3)))]

(* pickle.dump(vps_state, f) and pickle.load(f) (bot.py:99, 109).  The     *)
(* stream holds the items of the dict one after the other, each a name and *)
(* the items of its record, a key and a value each; the load builds a dict *)
(* from the items it reads.                                                *)
RecordKeys == <<"owner_id", "image", "created_at", "container_id", "short_id", "meta">>

RECURSIVE pickle_items(_, _)
pickle_items(state, names) ==
    IF names = {} THEN <<>>
    ELSE LET n == CHOOSE n \in names : TRUE
         IN  << <<n, [i \in DOMAIN RecordKeys |-> <<RecordKeys[i], state[n][RecordKeys[i]]>>]>> >>
             \o pickle_items(state, names \ {n})

pickle_dump(state) == pickle_items(state, DOMAIN state)

pickle_dict(items) ==
    [k \in { items[i][1] : i \in DOMAIN items } |->
        items[CHOOSE i \in DOMAIN items : items[i][1] = k][2]]

pickle_load(stream) ==
    LET top == pickle_dict(stream)
    IN  [n \in DOMAIN top |-> pickle_dict(top[n])]

(* The content of BACKUP_FILE: a complete pickle stream, no file, or a file *)
(* that pickle.load cannot read.                                           *)
Pickle(state) == [kind |-> "pickle", data |-> pickle_dump(state)]
NoFile == [kind |-> "absent", data |-> <<>>]
Corrupt == [kind |-> "corrupt", data |-> <<>>]

InitialBackups == { NoFile, Pickle(StateOf({Ra1, Rb1})), Pickle(StateOf({Ra1, Ra2})) }

ContainersOf(state) ==
    [cid \in { state[n].container_id : n \in DOMAIN state } |->
        [name |-> CHOOSE n \in DOMAIN state : state[n].container_id = cid,
         status |-> "running"]]

Times == {0, 1}     \* values of datetime.utcnow() at an insert

(* safe_container_name and detect_malicious_image on the inputs of the     *)
(* model, computed once.                                                   *)
SanitizedName ==
    [uid \in { c.id : c \in Callers }, base \in Labels |-> safe_container_name(base, uid)]
MaliciousImage == [image \in Images |-> detect_malicious_image(image)]

(* The world a handler runs in, and the outcome of a handler. *)
World == [vps_state |-> vps_state, backup |-> backup,
          containers |-> containers, docker_ids |-> docker_ids]

Outcome(msg, exc, calls, status, w) ==
    [msg |-> msg, exc |-> exc, calls |-> calls, status |-> status, w |-> w]

----------------------------------------------------------------------------
(* Durable storage *)

StorageFaults == {"ok", "open_fails", "io_fails"}

(* the file is not written *)
save_backup_unwritten(state, file, io) == file

(* bot.py:106-112: the file after save_backup().  open(BACKUP_FILE, "wb")   *)
(* truncates the file, so a write that fails after the open leaves an       *)
(* unreadable file; the exception is logged and swallowed either way.       *)
save_backup(state, file, io) ==
    CASE io = "ok"         -> Pickle(state)
      [] io = "open_fails" -> file
      [] io = "io_fails"   -> Corrupt

(* bot.py:94-104: the registry after load_backup(): replaced by the file's  *)
(* content, or left as it is when there is no file or the load raises.      *)
load_backup(state, file, io) ==
    IF file.kind = "absent" THEN state
    ELSE IF io # "ok" \/ file.kind = "corrupt" THEN state
    ELSE pickle_load(file.data)

----------------------------------------------------------------------------
(* The Docker runtime, as the SDK calls of the handlers see it *)

RuntimeFaults == {"none", "get", "op"}

(* docker_client.containers.get(id) followed by one method of the container *)
(* (bot.py:289, 316-317, 337-338, 358-359, 382-383, 408-409).  exc is the   *)
(* exception raised ("none" when the calls return), calls the SDK calls     *)
(* issued, containers the runtime afterwards.  With docker_client None the  *)
(* attribute access docker_client.containers raises before any call.        *)
docker_call(conts, cid, method, force, fault) ==
    IF docker_client = "None"
    THEN [exc |-> "AttributeError", calls |-> <<>>, containers |-> conts,
          status |-> "none"]
    ELSE IF fault = "get"
    THEN [exc |-> "APIError", calls |-> <<"get">>, containers |-> conts,
          status |-> "none"]
    ELSE IF cid \notin DOMAIN conts
    THEN [exc |-> "NotFound", calls |-> <<"get">>, containers |-> conts,
          status |-> "none"]
    ELSE IF method = "inspect"
    THEN [exc |-> "none", calls |-> <<"get">>, containers |-> conts,
          status |-> conts[cid].status]
    ELSE IF \/ fault = "op"
            \/ method = "remove" /\ ~force /\ conts[cid].status = "running"
            \/ method = "exec_run" /\ conts[cid].status # "running"
    THEN [exc |-> "APIError", calls |-> <<"get", method>>, containers |-> conts,
          status |-> "none"]
    ELSE [exc |-> "none", calls |-> <<"get", method>>,
          containers |->
            CASE method = "remove" -> [c \in DOMAIN conts \ {cid} |-> conts[c]]
              [] method = "stop"   -> [conts EXCEPT ![cid].status = "exited"]
              [] method \in {"start", "restart"} ->
                                      [conts EXCEPT ![cid].status = "running"]
              [] OTHER             -> conts,
          status |-> "none"]

CreateFaults == {"none", "pull", "run"}

(* bot.py:145-189, the body of the coroutine function: what awaiting it     *)
(* returns or raises, the SDK calls it issues and the runtime afterwards.   *)
(* containers.run(name=...) is refused by the runtime when a container of   *)
(* that name exists.                                                        *)
run_docker_container(w, image, name, owner_id, fault) ==
    IF docker_client = "None"
    THEN [ret |-> [kind |-> "raise", exc |-> "RuntimeError"], calls |-> <<>>,
          containers |-> w.containers, docker_ids |-> w.docker_ids]
    ELSE IF fault = "pull"
    THEN [ret |-> [kind |-> "raise", exc |-> "APIError"], calls |-> <<"pull">>,
          containers |-> w.containers, docker_ids |-> w.docker_ids]
    ELSE IF fault = "run" \/ \E c \in DOMAIN w.containers : w.containers[c].name = name
    THEN [ret |-> [kind |-> "raise", exc |-> "APIError"], calls |-> <<"pull", "run">>,
          containers |-> w.containers, docker_ids |-> w.docker_ids]
    ELSE LET cid == ContainerId(w.docker_ids + 1)
         IN  [ret |-> [kind |-> "dict", id |-> cid, short_id |-> ShortId(cid)],
              calls |-> <<"pull", "run">>,
              containers |->
                [c \in DOMAIN w.containers \cup {cid} |->
                    IF c = cid THEN [name |-> name, status |-> "running"]
                    ELSE w.containers[c]],
              docker_ids |-> w.docker_ids + 1]

(* the coroutine is awaited and its result handed back *)
asyncio_to_thread_awaited(w, call) == call

(* bot.py:239, asyncio.to_thread(run_docker_container, ...): the worker     *)
(* thread calls the coroutine function, which only builds a coroutine       *)
(* object; nothing awaits it, so the body above never runs and the value    *)
(* the handler receives is the coroutine object.                            *)
asyncio_to_thread(w, call) ==
    [ret |-> [kind |-> "coroutine"], calls |-> <<>>,
     containers |-> w.containers, docker_ids |-> w.docker_ids]

----------------------------------------------------------------------------
(* slash_create *)

user_containers(state, uid) == { n \in DOMAIN state : state[n].owner_id = uid }

(* the per-user comparison is > instead of >= *)
create_checks_off_by_one(state, uid, sanitized_name, image) ==
    IF Cardinality(user_containers(state, uid)) > MAX_VPS_PER_USER THEN "limit"
    ELSE IF sanitized_name \in DOMAIN state THEN "exists"
    ELSE IF MaliciousImage[image] THEN "suspicious"
    ELSE IF Cardinality(DOMAIN state) >= MAX_CONTAINERS THEN "host_full"
    ELSE "pass"

(* the duplicate and image checks run before the two quota checks *)
create_checks_duplicate_first(state, uid, sanitized_name, image) ==
    IF sanitized_name \in DOMAIN state THEN "exists"
    ELSE IF MaliciousImage[image] THEN "suspicious"
    ELSE IF Cardinality(user_containers(state, uid)) >= MAX_VPS_PER_USER THEN "limit"
    ELSE IF Cardinality(DOMAIN state) >= MAX_CONTAINERS THEN "host_full"
    ELSE "pass"

(* bot.py:218-236: the checks of slash_create, in the order of the code;    *)
(* "pass" when none of them returns                                         *)
create_checks(state, uid, sanitized_name, image) ==
    IF Cardinality(user_containers(state, uid)) >= MAX_VPS_PER_USER THEN "limit"
    ELSE IF sanitized_name \in DOMAIN state THEN "exists"
    ELSE IF MaliciousImage[image] THEN "suspicious"
    ELSE IF Cardinality(DOMAIN state) >= MAX_CONTAINERS THEN "host_full"
    ELSE "pass"

(* the locals of slash_create that live across the await of bot.py:239 *)
create_task(caller, name, image) ==
    [user |-> caller.id, name |-> SanitizedName[caller.id, name], image |-> image]

(* bot.py:215-239: from the start of the handler to the await at line 239.  *)
(* The message is that of the check that returned; with "pass" nothing is   *)
(* sent yet and the coroutine is suspended.                                 *)
slash_create_out(w, caller, name, image) ==
    Outcome(create_checks(w.vps_state, caller.id, SanitizedName[caller.id, name], image),
            "none", <<>>, "none", w)

(* res.get("id"), res.get("short_id") at bot.py:245-246: the exception the  *)
(* try block of bot.py:238-250 ends with, "none" when it runs through       *)
create_exc(ret) ==
    CASE ret.kind = "raise"     -> ret.exc
      [] ret.kind = "coroutine" -> "AttributeError"
      [] ret.kind = "dict"      -> "none"

(* the record is written before the result of the runtime call is looked at *)
create_record_early(state, task, ret, now) ==
    [n \in DOMAIN state \cup {task.name} |->
        IF n = task.name THEN Record(task.user, task.image, now, <<>>, <<>>)
        ELSE state[n]]

(* bot.py:241-248: the registry after the try block *)
create_record(state, task, ret, now) ==
    IF create_exc(ret) = "none"
    THEN [n \in DOMAIN state \cup {task.name} |->
            IF n = task.name
            THEN Record(task.user, task.image, now, ret.id, ret.short_id)
            ELSE state[n]]
    ELSE state

(* bot.py:239-253: from the return of the await to the end of the handler *)
slash_create_resume_out(w, task, fault, io, now) ==
    LET res == asyncio_to_thread(w,
                   run_docker_container(w, task.image, task.name, task.user, fault))
        exc == create_exc(res.ret)
        new == create_record(w.vps_state, task, res.ret, now)
    IN  Outcome(IF exc = "none" THEN "created" ELSE "failed", exc, res.calls, "none",
                [vps_state |-> new,
                 backup |-> IF exc = "none" THEN save_backup(new, w.backup, io)
                            ELSE w.backup,
                 containers |-> res.containers,
                 docker_ids |-> res.docker_ids])

----------------------------------------------------------------------------
(* The per-name commands *)

(* the check of the caller is missing *)
may_mutate_anyone(entry, caller) == TRUE

(* bot.py:312, 333, 354, 375, 404: the caller passes when it owns the       *)
(* record or member_is_admin says so                                        *)
may_mutate(entry, caller) ==
    entry.owner_id = caller.id \/ member_is_admin(caller)

(* the caller is checked before the name is looked up: whoever is not an    *)
(* admin and does not own a record of that name is denied                   *)
name_command_auth_first(w, method, caller, name, fault) ==
    IF /\ ~member_is_admin(caller)
       /\ (name \notin DOMAIN w.vps_state \/ w.vps_state[name].owner_id # caller.id)
    THEN Outcome("denied", "none", <<>>, "none", w)
    ELSE IF name \notin DOMAIN w.vps_state
    THEN Outcome("not_managed", "none", <<>>, "none", w)
    ELSE LET res == docker_call(w.containers, w.vps_state[name].container_id,
                                method, FALSE, fault)
         IN  Outcome(CASE res.exc = "none"     -> "ok"
                       [] res.exc = "NotFound" -> "not_found_on_host"
                       [] OTHER                -> "failed",
                     res.exc, res.calls, "none",
                     [w EXCEPT !.containers = res.containers])

(* the record of a container the runtime no longer has is dropped *)
name_command_self_heal(w, method, caller, name, fault) ==
    IF name \notin DOMAIN w.vps_state
    THEN Outcome("not_managed", "none", <<>>, "none", w)
    ELSE IF ~(w.vps_state[name].owner_id = caller.id \/ member_is_admin(caller))
    THEN Outcome("denied", "none", <<>>, "none", w)
    ELSE LET res == docker_call(w.containers, w.vps_state[name].container_id,
                                method, FALSE, fault)
         IN  Outcome(CASE res.exc = "none"     -> "ok"
                       [] res.exc = "NotFound" -> "not_found_on_host"
                       [] OTHER                -> "failed",
                     res.exc, res.calls, "none",
                     [w EXCEPT !.containers = res.containers,
                               !.vps_state =
                                    IF res.exc = "NotFound"
                                    THEN [n \in DOMAIN w.vps_state \ {name} |-> w.vps_state[n]]
                                    ELSE w.vps_state])

(* bot.py:305-323, 327-344, 348-365, 398-424: start, stop, restart and exec *)
(* share one shape: look the name up, check the caller, get the container   *)
(* and call one method on it.  None of them writes vps_state.               *)
name_command(w, method, caller, name, fault) ==
    IF name \notin DOMAIN w.vps_state
    THEN Outcome("not_managed", "none", <<>>, "none", w)
    ELSE IF ~may_mutate(w.vps_state[name], caller)
    THEN Outcome("denied", "none", <<>>, "none", w)
    ELSE LET res == docker_call(w.containers, w.vps_state[name].container_id,
                                method, FALSE, fault)
         IN  Outcome(CASE res.exc = "none"     -> "ok"
                       [] res.exc = "NotFound" -> "not_found_on_host"
                       [] OTHER                -> "failed",
                     res.exc, res.calls, "none",
                     [w EXCEPT !.containers = res.containers])

slash_start_out(w, caller, name, fault) == name_command(w, "start", caller, name, fault)
slash_stop_out(w, caller, name, fault) == name_command(w, "stop", caller, name, fault)
slash_restart_out(w, caller, name, fault) == name_command(w, "restart", caller, name, fault)
slash_exec_out(w, caller, name, fault) == name_command(w, "exec_run", caller, name, fault)

(* bot.py:255-278.  failing is the set of the caller's records on which     *)
(* containers.get raises a runtime error.  The outcome carries, as status,  *)
(* the lines of the listing: for each name the id shown, the image, the     *)
(* status shown and the creation time.  The status shown is the container's *)
(* status, or "not found" after any exception of the lookup.                *)
slash_list_out(w, caller, failing) ==
    LET owned == user_containers(w.vps_state, caller.id)
        line(n) ==
            LET meta == w.vps_state[n]
                res  == docker_call(w.containers, meta.container_id, "inspect", FALSE,
                                    IF n \in failing THEN "get" ELSE "none")
            IN  [cid |-> IF meta.short_id # <<>> THEN meta.short_id ELSE meta.container_id,
                 image |-> meta.image,
                 status |-> IF res.exc = "none" THEN res.status ELSE "not found",
                 created |-> meta.created_at]
    IN  IF owned = {}
        THEN Outcome("none_owned", "none", <<>>, "none", w)
        ELSE Outcome("listing", "none", <<>>, [n \in owned |-> line(n)], w)

(* bot.py:282-301: no check of the caller *)
slash_status_out(w, caller, name, fault) ==
    IF name \notin DOMAIN w.vps_state
    THEN Outcome("not_managed", "none", <<>>, "none", w)
    ELSE LET res == docker_call(w.containers, w.vps_state[name].container_id,
                                "inspect", FALSE, fault)
         IN  Outcome(CASE res.exc = "none"     -> "status"
                       [] res.exc = "NotFound" -> "not_found_on_host"
                       [] OTHER                -> "failed",
                     res.exc, res.calls, res.status, w)

(* the pop runs whatever the removal raised *)
delete_cleanup_always(state, name, exc) == [n \in DOMAIN state \ {name} |-> state[n]]

(* NotFound is not caught: the pop runs only after a removal that returned *)
delete_cleanup_strict(state, name, exc) ==
    IF exc = "none" THEN [n \in DOMAIN state \ {name} |-> state[n]] ELSE state

(* bot.py:379-390: the registry after the try block of slash_delete.  Only  *)
(* NotFound is caught by the inner try; any other exception of the removal  *)
(* leaves the try block before the pop.                                     *)
delete_cleanup(state, name, exc) ==
    IF exc \in {"none", "NotFound"}
    THEN [n \in DOMAIN state \ {name} |-> state[n]]
    ELSE state

(* a write that fails undoes the pop and is reported as a failure *)
slash_delete_out_rollback(w, caller, name, force, fault, io) ==
    IF name \notin DOMAIN w.vps_state
    THEN Outcome("not_managed", "none", <<>>, "none", w)
    ELSE IF ~may_mutate(w.vps_state[name], caller)
    THEN Outcome("denied", "none", <<>>, "none", w)
    ELSE LET res == docker_call(w.containers, w.vps_state[name].container_id,
                                "remove", force, fault)
             done == res.exc \in {"none", "NotFound"} /\ io = "ok"
             new == IF done THEN delete_cleanup(w.vps_state, name, res.exc)
                    ELSE w.vps_state
         IN  Outcome(IF done THEN "removed" ELSE "failed",
                     IF done THEN "none" ELSE IF io # "ok" THEN "OSError" ELSE res.exc,
                     res.calls, "none",
                     [vps_state |-> new,
                      backup |-> IF res.exc \in {"none", "NotFound"}
                                 THEN save_backup(new, w.backup, io) ELSE w.backup,
                      containers |-> res.containers,
                      docker_ids |-> w.docker_ids])

(* the registry is not saved after the pop *)
slash_delete_out_unsaved(w, caller, name, force, fault, io) ==
    IF name \notin DOMAIN w.vps_state
    THEN Outcome("not_managed", "none", <<>>, "none", w)
    ELSE IF ~may_mutate(w.vps_state[name], caller)
    THEN Outcome("denied", "none", <<>>, "none", w)
    ELSE LET res == docker_call(w.containers, w.vps_state[name].container_id,
                                "remove", force, fault)
             done == res.exc \in {"none", "NotFound"}
         IN  Outcome(IF done THEN "removed" ELSE "failed",
                     IF done THEN "none" ELSE res.exc,
                     res.calls, "none",
                     [vps_state |-> delete_cleanup(w.vps_state, name, res.exc),
                      backup |-> w.backup,
                      containers |-> res.containers,
                      docker_ids |-> w.docker_ids])

(* bot.py:369-394 *)
slash_delete_out(w, caller, name, force, fault, io) ==
    IF name \notin DOMAIN w.vps_state
    THEN Outcome("not_managed", "none", <<>>, "none", w)
    ELSE IF ~may_mutate(w.vps_state[name], caller)
    THEN Outcome("denied", "none", <<>>, "none", w)
    ELSE LET res == docker_call(w.containers, w.vps_state[name].container_id,
                                "remove", force, fault)
             new == delete_cleanup(w.vps_state, name, res.exc)
             done == res.exc \in {"none", "NotFound"}
         IN  Outcome(IF done THEN "removed" ELSE "failed",
                     IF done THEN "none" ELSE res.exc,
                     res.calls, "none",
                     [vps_state |-> new,
                      backup |-> IF done THEN save_backup(new, w.backup, io)
                                 ELSE w.backup,
                      containers |-> res.containers,
                      docker_ids |-> w.docker_ids])

(* bot.py:311-312, 332-333, 353-354, 374-375, 403-404: the handler reaches *)
(* await member_is_admin(...) when the name is managed and the caller is    *)
(* not the owner (the `and` evaluates its right side only then)             *)
reaches_admin_check(w, caller, name) ==
    /\ name \in DOMAIN w.vps_state
    /\ w.vps_state[name].owner_id # caller.id

(* bot.py:312-323, 375-394 and the like: the handler from the return of     *)
(* await member_is_admin(...) to its end.  co holds its locals: the method, *)
(* the caller, the name, force, and entry, the record it looked up before   *)
(* the await.  The runtime call is for entry's container; delete pops name  *)
(* from the registry as it is by now and saves.                             *)
after_admin_check_out(w, co, fault, io) ==
    IF ~member_is_admin(co.caller)
    THEN Outcome("denied", "none", <<>>, "none", w)
    ELSE LET res == docker_call(w.containers, co.entry.container_id, co.method,
                                co.force, fault)
             done == res.exc \in {"none", "NotFound"}
             new == delete_cleanup(w.vps_state, co.name, res.exc)
         IN  IF co.method = "remove"
             THEN Outcome(IF done THEN "removed" ELSE "failed",
                          IF done THEN "none" ELSE res.exc,
                          res.calls, "none",
                          [vps_state |-> new,
                           backup |-> IF done THEN save_backup(new, w.backup, io)
                                      ELSE w.backup,
                           containers |-> res.containers,
                           docker_ids |-> w.docker_ids])
             ELSE Outcome(CASE res.exc = "none"     -> "ok"
                            [] res.exc = "NotFound" -> "not_found_on_host"
                            [] OTHER                -> "failed",
                          res.exc, res.calls, "none",
                          [w EXCEPT !.containers = res.containers])

----------------------------------------------------------------------------
(* Admin commands *)

(* bot.py:429-438.  The has_permissions check refuses the command before    *)
(* the handler runs; on_app_command_error (bot.py:495-501) answers.         *)
slash_backup_out(w, caller, io) ==
    IF caller.administrator
    THEN Outcome("saved", "none", <<>>, "none",
                 [w EXCEPT !.backup = save_backup(w.vps_state, w.backup, io)])
    ELSE Outcome("error", "MissingPermissions", <<>>, "none", w)

(* bot.py:440-449 *)
slash_restore_out(w, caller, io) ==
    IF caller.administrator
    THEN Outcome("restored", "none", <<>>, "none",
                 [w EXCEPT !.vps_state = load_backup(w.vps_state, w.backup, io)])
    ELSE Outcome("error", "MissingPermissions", <<>>, "none", w)

----------------------------------------------------------------------------
(* Actions: each installs the world its handler leaves *)

Install(w) ==
    /\ vps_state' = w.vps_state
    /\ backup' = w.backup
    /\ containers' = w.containers
    /\ docker_ids' = w.docker_ids

slash_create(caller, name, image) ==
    /\ IF slash_create_out(World, caller, name, image).msg = "pass"
       THEN /\ BagCardinality(tasks) < MaxPending
            /\ docker_ids + BagCardinality(tasks) < MaxIds
            /\ tasks' = tasks (+) SetToBag({create_task(caller, name, image)})
       ELSE tasks' = tasks
    /\ UNCHANGED <<vps_state, backup, docker_client, containers, docker_ids, awaiting>>

slash_create_resume(task) ==
    /\ BagIn(task, tasks)
    /\ tasks' = tasks (-) SetToBag({task})
    /\ \E fault \in CreateFaults, io \in StorageFaults, now \in Times :
            Install(slash_create_resume_out(World, task, fault, io, now).w)
    /\ UNCHANGED <<docker_client, awaiting>>

(* bot.py:312, 333, 354, 375, 404: the handler has looked the name up and   *)
(* found a record of another user; it holds the record in its local entry   *)
(* and waits for member_is_admin                                            *)
suspend_at_admin_check(method, caller, name, force) ==
    /\ awaiting' = awaiting \cup { [method |-> method, caller |-> caller, name |-> name,
                                     force |-> force, entry |-> vps_state[name]] }
    /\ UNCHANGED <<vps_state, backup, docker_client, containers, docker_ids, tasks>>

after_admin_check(co) ==
    /\ co \in awaiting
    /\ awaiting' = awaiting \ {co}
    /\ \E fault \in RuntimeFaults, io \in StorageFaults :
            Install(after_admin_check_out(World, co, fault, io).w)
    /\ UNCHANGED <<docker_client, tasks>>

(* the coroutines the event loop can resume: each is suspended inside the   *)
(* body of its handler and continues from its await                         *)
Suspended ==
    { [kind |-> "create", frame |-> task] : task \in BagToSet(tasks) }
    \cup { [kind |-> "name", frame |-> co] : co \in awaiting }

resume(s) ==
    IF s.kind = "create" THEN slash_create_resume(s.frame) ELSE after_admin_check(s.frame)

slash_status(caller, name) ==
    /\ \E fault \in RuntimeFaults : Install(slash_status_out(World, caller, name, fault).w)
    /\ UNCHANGED <<docker_client, tasks, awaiting>>

slash_list(caller) ==
    /\ \E failing \in SUBSET user_containers(vps_state, caller.id) :
            Install(slash_list_out(World, caller, failing).w)
    /\ UNCHANGED <<docker_client, tasks, awaiting>>

slash_start(caller, name) ==
    IF member_is_admin_suspends /\ reaches_admin_check(World, caller, name)
    THEN suspend_at_admin_check("start", caller, name, FALSE)
    ELSE /\ \E fault \in RuntimeFaults :
                Install(slash_start_out(World, caller, name, fault).w)
         /\ UNCHANGED <<docker_client, tasks, awaiting>>

slash_stop(caller, name) ==
    IF member_is_admin_suspends /\ reaches_admin_check(World, caller, name)
    THEN suspend_at_admin_check("stop", caller, name, FALSE)
    ELSE /\ \E fault \in RuntimeFaults :
                Install(slash_stop_out(World, caller, name, fault).w)
         /\ UNCHANGED <<docker_client, tasks, awaiting>>

slash_restart(caller, name) ==
    IF member_is_admin_suspends /\ reaches_admin_check(World, caller, name)
    THEN suspend_at_admin_check("restart", caller, name, FALSE)
    ELSE /\ \E fault \in RuntimeFaults :
                Install(slash_restart_out(World, caller, name, fault).w)
         /\ UNCHANGED <<docker_client, tasks, awaiting>>

slash_exec(caller, name) ==
    IF member_is_admin_suspends /\ reaches_admin_check(World, caller, name)
    THEN suspend_at_admin_check("exec_run", caller, name, FALSE)
    ELSE /\ \E fault \in RuntimeFaults :
                Install(slash_exec_out(World, caller, name, fault).w)
         /\ UNCHANGED <<docker_client, tasks, awaiting>>

slash_delete(caller, name, force) ==
    IF member_is_admin_suspends /\ reaches_admin_check(World, caller, name)
    THEN suspend_at_admin_check("remove", caller, name, force)
    ELSE /\ \E fault \in RuntimeFaults, io \in StorageFaults :
                Install(slash_delete_out(World, caller, name, force, fault, io).w)
         /\ UNCHANGED <<docker_client, tasks, awaiting>>

slash_backup(caller) ==
    /\ \E io \in StorageFaults : Install(slash_backup_out(World, caller, io).w)
    /\ UNCHANGED <<docker_client, tasks, awaiting>>

slash_restore(caller) ==
    /\ \E io \in StorageFaults : Install(slash_restore_out(World, caller, io).w)
    /\ UNCHANGED <<docker_client, tasks, awaiting>>

(* The environment: a container is removed from the runtime out-of-band *)
ContainerLost(cid) ==
    /\ cid \in DOMAIN containers
    /\ containers' = [c \in DOMAIN containers \ {cid} |-> containers[c]]
    /\ UNCHANGED <<vps_state, backup, docker_client, docker_ids, tasks, awaiting>>

----------------------------------------------------------------------------
(* bot.py:80-85, 92, 115: the state after the module is imported *)
Init ==
    /\ backup \in InitialBackups
    /\ \E io \in {"ok", "open_fails"} : vps_state = load_backup(EmptyState, backup, io)
    /\ docker_client \in {"client", "None"}
    /\ containers = ContainersOf(pickle_load(backup.data))
    /\ docker_ids = 3
    /\ tasks = EmptyBag
    /\ awaiting = {}

Next ==
    \/ \E caller \in Creators, name \in Labels, image \in Images :
            slash_create(caller, name, image)
    \/ \E s \in Suspended : resume(s)
    \/ \E caller \in Callers : slash_list(caller)
    \/ \E caller \in Callers, name \in Names : slash_status(caller, name)
    \/ \E caller \in Callers, name \in Names : slash_start(caller, name)
    \/ \E caller \in Callers, name \in Names : slash_stop(caller, name)
    \/ \E caller \in Callers, name \in Names : slash_restart(caller, name)
    \/ \E caller \in Callers, name \in Names : slash_exec(caller, name)
    \/ \E caller \in Callers, name \in Names, force \in BOOLEAN :
            slash_delete(caller, name, force)
    \/ \E caller \in Callers : slash_backup(caller)
    \/ \E caller \in Callers : slash_restore(caller)
    \/ \E cid \in DOMAIN containers : ContainerLost(cid)

Spec == Init /\ [][Next]_vars

----------------------------------------------------------------------------
(* Vocabulary of the properties *)

(* the caller owns the record or is an admin, by id or by role *)
Authorized(entry, caller) ==
    \/ caller.id = entry.owner_id
    \/ caller.id \in ADMIN_IDS
    \/ ADMIN_ROLE_ID \in caller.roles

(* what the runtime does with the removal delete asks for *)
Removal(name, force, fault) ==
    docker_call(containers, vps_state[name].container_id, "remove", force, fault)

(* the backup file holds exactly the registry *)
Persisted(w) == w.backup = Pickle(w.vps_state)

----------------------------------------------------------------------------
(* C1, as stated: in every reachable state, for every record and every      *)
(* caller who is its owner or an admin, delete leaves the name out of the   *)
(* registry and the registry persisted, whatever the runtime did with the   *)
(* removal (storage working).                                               *)
C1_DeleteAlwaysRemoves ==
    \A caller \in Callers, name \in DOMAIN vps_state, force \in BOOLEAN,
       fault \in RuntimeFaults :
        Authorized(vps_state[name], caller) =>
            LET out == slash_delete_out(World, caller, name, force, fault, "ok")
            IN  /\ name \notin DOMAIN out.w.vps_state
                /\ Persisted(out.w)

(* C1, amended: for every record and every caller who is its owner or an    *)
(* admin, when the runtime removed the container or answered not found,     *)
(* delete reports success, the name is absent from the registry and         *)
(* save_backup has run on the new registry (the file equals the registry    *)
(* when the write succeeds); when the removal is refused, fails with any    *)
(* other error, or docker_client is None, delete reports failure and the    *)
(* registry and the file stay as they were.                                 *)
C1_DeleteRemovesUnlessRemovalFails ==
    \A caller \in Callers, name \in DOMAIN vps_state, force \in BOOLEAN,
       fault \in RuntimeFaults, io \in StorageFaults :
        Authorized(vps_state[name], caller) =>
            LET out == slash_delete_out(World, caller, name, force, fault, io)
            IN  IF Removal(name, force, fault).exc \in {"none", "NotFound"}
                THEN /\ out.msg = "removed"
                     /\ name \notin DOMAIN out.w.vps_state
                     /\ DOMAIN out.w.vps_state = DOMAIN vps_state \ {name}
                     /\ io = "ok" => Persisted(out.w)
                     /\ io = "open_fails" => out.w.backup = backup
                ELSE /\ out.msg = "failed"
                     /\ out.w.vps_state = vps_state
                     /\ out.w.backup = backup

(* C1 witness: one record has been deleted and the file rewritten; an admin  *)
(* by id or role now deletes the remaining record of another user, whose    *)
(* running container the runtime refuses to remove without force, and the   *)
(* same delete with force goes through.                                     *)
C1_Witness ==
    /\ Cardinality(DOMAIN vps_state) = 1
    /\ Persisted(World)
    /\ \E caller \in Callers, name \in DOMAIN vps_state :
        /\ caller.id # vps_state[name].owner_id
        /\ Authorized(vps_state[name], caller)
        /\ Removal(name, FALSE, "none").exc = "APIError"
        /\ slash_delete_out(World, caller, name, FALSE, "none", "ok").msg = "failed"
        /\ slash_delete_out(World, caller, name, TRUE, "none", "ok").msg = "removed"
        /\ slash_delete_out(World, caller, name, TRUE, "none", "ok").w.vps_state = EmptyState

(* C2: when a record's container is gone from the runtime (the runtime      *)
(* answers not found), delete by the owner reports success, removes the     *)
(* name from the registry and writes the registry to the backup file.       *)
C2_OrphanCleanup ==
    \A caller \in Callers, name \in DOMAIN vps_state, force \in BOOLEAN,
       fault \in RuntimeFaults, io \in StorageFaults :
        /\ caller.id = vps_state[name].owner_id
        /\ Removal(name, force, fault).exc = "NotFound"
        => LET out == slash_delete_out(World, caller, name, force, fault, io)
           IN  /\ out.msg = "removed"
               /\ name \notin DOMAIN out.w.vps_state
               /\ io = "ok" => Persisted(out.w)

(* C2 witness: the owner deletes a record whose container was removed       *)
(* out-of-band.                                                             *)
C2_Witness ==
    \E caller \in Callers, name \in DOMAIN vps_state :
        /\ caller.id = vps_state[name].owner_id
        /\ docker_client = "client"
        /\ vps_state[name].container_id \notin DOMAIN containers
        /\ slash_delete_out(World, caller, name, FALSE, "none", "ok").msg = "removed"

----------------------------------------------------------------------------
C5_QuotaRejection ==
    \A caller \in Creators, name \in Labels, image \in Images :
        Cardinality({ n \in DOMAIN vps_state : vps_state[n].owner_id = caller.id })
            >= MAX_VPS_PER_USER
        => LET out == slash_create_out(World, caller, name, image)
           IN  /\ out.msg = "limit"
               /\ out.calls = <<>>
               /\ out.w = World

(* C5 witness: a caller at the maximum asks for a new name with an allowed  *)
(* image and is refused.                                                    *)
C5_Witness ==
    \E caller \in Creators :
        /\ Cardinality(user_containers(vps_state, caller.id)) = MAX_VPS_PER_USER
        /\ SanitizedName[caller.id, <<"b","o","x">>] \notin DOMAIN vps_state
        /\ slash_create_out(World, caller, <<"b","o","x">>, DEFAULT_OS_IMAGE).msg = "limit"

(* C6: a caller who is neither the owner of a record nor an admin gets the  *)
(* permission-denied message from start, stop, restart, delete and exec;    *)
(* none of them issues a runtime call or changes the registry, the file or  *)
(* the runtime.                                                             *)
C6_Authorization ==
    \A caller \in Callers, name \in DOMAIN vps_state, force \in BOOLEAN,
       fault \in RuntimeFaults, io \in StorageFaults :
        ~Authorized(vps_state[name], caller) =>
            \A out \in { slash_start_out(World, caller, name, fault),
                         slash_stop_out(World, caller, name, fault),
                         slash_restart_out(World, caller, name, fault),
                         slash_exec_out(World, caller, name, fault),
                         slash_delete_out(World, caller, name, force, fault, io) } :
                /\ out.msg = "denied"
                /\ out.calls = <<>>
                /\ out.w = World

(* C6 witness: a caller without admin id or role is refused the delete of   *)
(* another user's record whose container is running.                        *)
C6_Witness ==
    \E caller \in Callers, name \in DOMAIN vps_state :
        /\ ~Authorized(vps_state[name], caller)
        /\ vps_state[name].container_id \in DOMAIN containers
        /\ docker_client = "client"
        /\ slash_delete_out(World, caller, name, TRUE, "none", "ok").msg = "denied"

(* an image reference with a deny-listed substring, whatever its case *)
HasDeniedSubstring(image) ==
    \E i \in 1..Len(image), j \in 1..Len(image) :
        i <= j /\ lower(SubSeq(image, i, j)) \in MINER_PATTERNS

DeniedReference == [image \in Images |-> HasDeniedSubstring(image)]

(* C7: a create whose image reference holds a deny-listed substring, in any *)
(* case and anywhere in the reference, is rejected: the handler answers     *)
(* with a rejection, issues no runtime call, is not suspended on one and    *)
(* leaves the registry and the file as they were; the rejection is the      *)
(* suspicious-image message when the caller is below the per-user limit and *)
(* the name is not in the registry.                                         *)
C7_ImagePolicy ==
    \A caller \in Creators, name \in Labels, image \in Images :
        DeniedReference[image] =>
            LET out == slash_create_out(World, caller, name, image)
            IN  /\ out.msg \in {"limit", "exists", "suspicious"}
                /\ out.calls = <<>>
                /\ out.w = World
                /\ ( /\ Cardinality(user_containers(vps_state, caller.id)) < MAX_VPS_PER_USER
                     /\ SanitizedName[caller.id, name] \notin DOMAIN vps_state )
                   => out.msg = "suspicious"

(* C7 witness: create("box", "cryptonight-miner:latest") by a caller below  *)
(* the limit is refused as suspicious, and so is an upper-case reference.   *)
C7_Witness ==
    \E caller \in Creators :
        /\ Cardinality(user_containers(vps_state, caller.id)) < MAX_VPS_PER_USER
        /\ Cardinality(DOMAIN vps_state) < MAX_CONTAINERS
        /\ slash_create_out(World, caller, <<"b","o","x">>, MinerImage).msg = "suspicious"
        /\ slash_create_out(World, caller, <<"b","o","x">>, XmrigImage).msg = "suspicious"

----------------------------------------------------------------------------
(* a create suspended at the await, whose checks still hold of the registry *)
(* and whose runtime creation succeeds: the runtime is reachable, pull and  *)
(* run raise nothing                                                        *)
CreationSucceeds(task) ==
    /\ create_checks(vps_state, task.user, task.name, task.image) = "pass"
    /\ run_docker_container(World, task.image, task.name, task.user, "none").ret.kind = "dict"

(* C8, as stated: a create that passed every check and whose runtime        *)
(* creation succeeds ends with a record under the canonical name (owner the *)
(* caller, image the requested image, container_id the handle of the        *)
(* runtime), the registry persisted, and reports success.                   *)
C8_CreateCommits ==
    \A task \in BagToSet(tasks), now \in Times :
        CreationSucceeds(task) =>
            LET made == run_docker_container(World, task.image, task.name, task.user, "none")
                out  == slash_create_resume_out(World, task, "none", "ok", now)
            IN  /\ out.msg = "created"
                /\ task.name \in DOMAIN out.w.vps_state
                /\ out.w.vps_state[task.name].owner_id = task.user
                /\ out.w.vps_state[task.name].image = task.image
                /\ out.w.vps_state[task.name].container_id = made.ret.id
                /\ Persisted(out.w)

(* C9, as stated: with a healthy runtime, status on the canonical name right *)
(* after the create that passed all checks reports a running container.      *)
C9_StatusAfterCreate ==
    \A task \in BagToSet(tasks), now \in Times, caller \in Callers :
        CreationSucceeds(task) =>
            LET out == slash_create_resume_out(World, task, "none", "ok", now)
                st  == slash_status_out(out.w, caller, task.name, "none")
            IN  /\ st.msg = "status"
                /\ st.status = "running"

(* the runtime creation of a suspended create fails: the runtime was found  *)
(* unreachable at import, or the pull or the run raises                     *)
CreationFails(fault) == docker_client = "None" \/ fault \in {"pull", "run"}

(* C10: when the checks of a create passed and its runtime creation fails,  *)
(* the create reports failure, inserts no record, and the registry and the  *)
(* file are as they were.                                                   *)
C10_NoPartialState ==
    \A task \in BagToSet(tasks), fault \in CreateFaults, io \in StorageFaults,
       now \in Times :
        CreationFails(fault) =>
            LET out == slash_create_resume_out(World, task, fault, io, now)
            IN  /\ out.msg = "failed"
                /\ out.w.vps_state = vps_state
                /\ out.w.backup = backup

(* C10 witness: a create is suspended at the await with the registry not    *)
(* empty, and the runtime is unreachable or the pull fails.                 *)
C10_Witness ==
    \E task \in BagToSet(tasks) :
        /\ vps_state # EmptyState
        /\ create_checks(vps_state, task.user, task.name, task.image) = "pass"
        /\ slash_create_resume_out(World, task, "pull", "ok", 1).msg = "failed"

----------------------------------------------------------------------------
(* the outcomes of start, stop and restart of one name by one caller *)
LifecycleOutcomes(caller, name, fault) ==
    { slash_start_out(World, caller, name, fault),
      slash_stop_out(World, caller, name, fault),
      slash_restart_out(World, caller, name, fault) }

(* C11: start, stop and restart leave the registry as it was, whoever calls *)
(* them on whatever name and whatever the runtime answers (success, not     *)
(* found, any other failure, caller denied, name not managed); after a not  *)
(* found of the runtime the orphaned record is still in the registry.  The  *)
(* backup file is not written either.                                       *)
C11_LifecycleFrame ==
    \A caller \in Callers, name \in Names, fault \in RuntimeFaults :
        \A out \in LifecycleOutcomes(caller, name, fault) :
            /\ out.w.vps_state = vps_state
            /\ out.w.backup = backup
            /\ out.msg = "not_found_on_host" => name \in DOMAIN out.w.vps_state

(* C11 witness: the container of a record is gone from the runtime while    *)
(* another record still has its container; on the orphan the owner's start  *)
(* is answered not found, and the five outcomes all occur in this state.    *)
C11_Witness ==
    \E owner \in Callers, other \in Callers, orphan \in DOMAIN vps_state,
       live \in DOMAIN vps_state :
        /\ owner.id = vps_state[orphan].owner_id
        /\ vps_state[orphan].container_id \notin DOMAIN containers
        /\ vps_state[live].container_id \in DOMAIN containers
        /\ slash_start_out(World, owner, orphan, "none").msg = "not_found_on_host"
        /\ slash_restart_out(World, owner, orphan, "op").msg = "not_found_on_host"
        /\ slash_stop_out(World, owner, orphan, "get").msg = "failed"
        /\ slash_stop_out(World, owner, live, "none").msg = "ok"
        /\ slash_start_out(World, other, orphan, "none").msg = "denied"
        /\ slash_start_out(World, other, Ghost, "none").msg = "not_managed"

----------------------------------------------------------------------------
(* the outcomes of the commands that drive the runtime for one record *)
RuntimeCommandOutcomes(caller, name, force, fault, io) ==
    { slash_status_out(World, caller, name, fault),
      slash_start_out(World, caller, name, fault),
      slash_stop_out(World, caller, name, fault),
      slash_restart_out(World, caller, name, fault),
      slash_exec_out(World, caller, name, fault),
      slash_delete_out(World, caller, name, force, fault, io) }

(* C12, as stated: when docker_client is None, every command that needs the *)
(* runtime (status, start, stop, restart, exec, delete on a record by a     *)
(* caller allowed to, and a create resumed from its await) issues no        *)
(* runtime call and answers with one and the same message, which is neither *)
(* the not-found message nor the generic failure message of the command.    *)
C12_RuntimeUnavailable ==
    docker_client = "None" =>
        LET outs ==
                UNION { RuntimeCommandOutcomes(caller, name, force, fault, io) :
                            caller \in { c \in Callers : c.id \in ADMIN_IDS },
                            name \in DOMAIN vps_state, force \in BOOLEAN,
                            fault \in RuntimeFaults, io \in StorageFaults }
                \cup { slash_create_resume_out(World, task, fault, io, now) :
                            task \in BagToSet(tasks), fault \in CreateFaults,
                            io \in StorageFaults, now \in Times }
        IN  /\ \A out \in outs :
                /\ out.calls = <<>>
                /\ out.msg \notin {"not_found_on_host", "failed"}
            /\ \A o1, o2 \in outs : o1.msg = o2.msg

----------------------------------------------------------------------------
(* registries of up to two records with varied owners, images and times *)
SampleRecords ==
    { Record(owner, image, created, ContainerId(4), ShortId(ContainerId(4))) :
        owner \in {1, 2}, image \in {DEFAULT_OS_IMAGE, XmrigImage}, created \in Times }

Registries == UNION { [names -> SampleRecords] : names \in SUBSET {Ra1, Ghost} }

(* the registry load_backup leaves after save_backup wrote the file *)
RoundTrip ==
    [state \in Registries |->
        load_backup(EmptyState, save_backup(state, NoFile, "ok"), "ok")]

(* the registries the round trip does not give back *)
RoundTripFailures == { state \in Registries : RoundTrip[state] # state }

(* C13: with storage working, /backup followed at once by /restore leaves   *)
(* the registry as it was before the backup, whatever the file held before; *)
(* and save_backup followed by load_backup gives back every registry of up  *)
(* to two records, name by name and field by field.                         *)
C13_RoundTrip ==
    /\ \A caller \in { c \in Callers : c.administrator } :
            LET saved == slash_backup_out(World, caller, "ok").w
            IN  slash_restore_out(saved, caller, "ok").w.vps_state = vps_state
    /\ RoundTripFailures = {}

(* C13 witness: the registry holds a record and the file holds a different  *)
(* registry; after /backup and /restore the registry is the one it was.     *)
C13_Witness ==
    \E caller \in Callers :
        /\ caller.administrator
        /\ vps_state # EmptyState
        /\ backup.kind = "pickle"
        /\ pickle_load(backup.data) # vps_state
        /\ slash_restore_out(World, caller, "ok").w.vps_state # vps_state
        /\ slash_restore_out(slash_backup_out(World, caller, "ok").w, caller, "ok").w.vps_state
                = vps_state

----------------------------------------------------------------------------
(* C14, as stated: the listing of a caller holds exactly the records the    *)
(* caller owns, each with the image and creation time of the record; a      *)
(* record whose inspection fails in the runtime (the lookup raises a        *)
(* runtime error, or docker_client is None) is shown with status "unknown", *)
(* and every other record whose container exists with that container's      *)
(* status.                                                                  *)
C14_Listing ==
    \A caller \in Callers :
        LET owned == { n \in DOMAIN vps_state : vps_state[n].owner_id = caller.id }
        IN  \A failing \in SUBSET owned :
                LET out == slash_list_out(World, caller, failing)
                IN  owned # {} =>
                        /\ out.msg = "listing"
                        /\ DOMAIN out.status = owned
                        /\ \A n \in owned :
                            /\ out.status[n].image = vps_state[n].image
                            /\ out.status[n].created = vps_state[n].created_at
                            /\ (n \in failing \/ docker_client = "None")
                                    => out.status[n].status = "unknown"
                            /\ ( /\ n \notin failing
                                 /\ docker_client = "client"
                                 /\ vps_state[n].container_id \in DOMAIN containers )
                                    => out.status[n].status
                                        = containers[vps_state[n].container_id].status

----------------------------------------------------------------------------
(* labels and owner ids for the sanitizer: upper case, characters that are  *)
(* replaced, labels that end like an owner id, ids of several digits        *)
SanitizerLabels ==
    Labels \cup { <<"a","-","1">>, <<"a"," ","1">>, <<"a",".","1">>, <<"1">>, <<"-">> }
OwnerIds == {1, 2, 3, 4, 10, 11, 12, 21, 100, 101}

Canonical ==
    [label \in SanitizerLabels, uid \in OwnerIds |-> safe_container_name(label, uid)]

(* a label and two different owner ids that get one name *)
Collisions ==
    { t \in SanitizerLabels \X OwnerIds \X OwnerIds :
        t[2] # t[3] /\ Canonical[t[1], t[2]] = Canonical[t[1], t[3]] }

(* C15: for every label, two different owner ids never get the same name    *)
(* from safe_container_name; and two creates suspended at the await that    *)
(* were asked for one label by two callers carry two different names.  (The *)
(* function reads nothing but its two arguments, so equal inputs give equal *)
(* names.)                                                                  *)
C15_SanitizerInjective ==
    /\ Collisions = {}
    /\ \A t1 \in BagToSet(tasks), t2 \in BagToSet(tasks), label \in Labels :
            ( /\ t1.user # t2.user
              /\ t1.name = SanitizedName[t1.user, label]
              /\ t2.name = SanitizedName[t2.user, label] ) => t1.name # t2.name

(* C15 witness: creates of two callers for the label "A" are suspended at   *)
(* the await, under the names eaglenode-a-1 and eaglenode-a-2.              *)
C15_Witness ==
    \E t1 \in BagToSet(tasks), t2 \in BagToSet(tasks) :
        /\ t1.user = 1 /\ t2.user = 2
        /\ t1.name = SanitizedName[1, <<"A">>]
        /\ t2.name = SanitizedName[2, <<"A">>]
        /\ t1.name = Ra1 /\ t2.name = Ra2

----------------------------------------------------------------------------
(* the checks a create request fails, each on its own: the name is in the   *)
(* registry, the image is deny-listed, the caller is at the per-user        *)
(* maximum, the registry is at its capacity                                 *)
FailedChecks(caller, label, image) ==
    { check \in {"exists", "suspicious", "limit", "host_full"} :
        CASE check = "exists"     -> SanitizedName[caller.id, label] \in DOMAIN vps_state
          [] check = "suspicious" -> DeniedReference[image]
          [] check = "limit"      ->
                Cardinality({ n \in DOMAIN vps_state : vps_state[n].owner_id = caller.id })
                    >= MAX_VPS_PER_USER
          [] check = "host_full"  -> Cardinality(DOMAIN vps_state) >= MAX_CONTAINERS }

(* the first check of order that is in failed *)
FirstFailing(order, failed) ==
    order[CHOOSE i \in DOMAIN order :
            /\ order[i] \in failed
            /\ \A j \in 1..(i - 1) : order[j] \notin failed]

(* C16, as stated: a create request that fails one or more checks is        *)
(* answered with the rejection of the first failing check in the order      *)
(* duplicate name, denied image, per-user quota, global capacity.           *)
C16_CheckOrderAsStated ==
    \A caller \in Creators, label \in Labels, image \in Images :
        LET failed == FailedChecks(caller, label, image)
        IN  failed # {} =>
                slash_create_out(World, caller, label, image).msg
                    = FirstFailing(<<"exists", "suspicious", "limit", "host_full">>, failed)

(* C16, amended: a create request that fails one or more checks is answered *)
(* with the rejection of the first failing check in the order per-user      *)
(* quota, duplicate name, denied image, global capacity; a request that     *)
(* fails none goes on to the runtime call.                                  *)
C16_CheckOrder ==
    \A caller \in Creators, label \in Labels, image \in Images :
        LET failed == FailedChecks(caller, label, image)
            out    == slash_create_out(World, caller, label, image)
        IN  IF failed = {} THEN out.msg = "pass"
            ELSE out.msg = FirstFailing(<<"limit", "exists", "suspicious", "host_full">>, failed)

(* C16 witness: a caller at the per-user maximum asks for a name that is in *)
(* the registry and is told the limit; another caller asks, with the        *)
(* registry full, for a deny-listed image and is told the image is          *)
(* suspicious.                                                              *)
C16_Witness ==
    \E c1 \in Creators, c2 \in Creators :
        /\ FailedChecks(c1, <<"a">>, DEFAULT_OS_IMAGE) = {"exists", "limit", "host_full"}
        /\ slash_create_out(World, c1, <<"a">>, DEFAULT_OS_IMAGE).msg = "limit"
        /\ FailedChecks(c2, <<"a">>, MinerImage) = {"suspicious", "host_full"}
        /\ slash_create_out(World, c2, <<"a">>, MinerImage).msg = "suspicious"

----------------------------------------------------------------------------
(* the world after a step *)
WorldAfter == [vps_state |-> vps_state', backup |-> backup',
               containers |-> containers', docker_ids |-> docker_ids']

(* the step is a delete of name by its owner or an admin that reported      *)
(* success                                                                  *)
DeleteStep(name) ==
    \E caller \in Callers, force \in BOOLEAN, fault \in RuntimeFaults,
       io \in StorageFaults :
        /\ Authorized(vps_state[name], caller)
        /\ slash_delete_out(World, caller, name, force, fault, io).msg = "removed"
        /\ slash_delete_out(World, caller, name, force, fault, io).w = WorldAfter
        /\ UNCHANGED <<docker_client, tasks>>

(* every name of the registry is in the registry a handler leaves *)
KeepsNames(out) == DOMAIN vps_state \subseteq DOMAIN out.w.vps_state

(* the commands other than delete keep every name, for every caller, name   *)
(* and fault                                                                *)
OthersKeepNames ==
    /\ \A caller \in Callers :
        /\ \A failing \in SUBSET DOMAIN vps_state :
                KeepsNames(slash_list_out(World, caller, failing))
        /\ \A io \in StorageFaults :
            /\ KeepsNames(slash_backup_out(World, caller, io))
            /\ KeepsNames(slash_restore_out(World, caller, io))
        /\ \A name \in Names, fault \in RuntimeFaults :
            /\ KeepsNames(slash_status_out(World, caller, name, fault))
            /\ KeepsNames(slash_start_out(World, caller, name, fault))
            /\ KeepsNames(slash_stop_out(World, caller, name, fault))
            /\ KeepsNames(slash_restart_out(World, caller, name, fault))
            /\ KeepsNames(slash_exec_out(World, caller, name, fault))
    /\ \A caller \in Creators, label \in Labels, image \in Images :
            KeepsNames(slash_create_out(World, caller, label, image))
    /\ \A task \in BagToSet(tasks), fault \in CreateFaults, io \in StorageFaults,
          now \in Times :
            KeepsNames(slash_create_resume_out(World, task, fault, io, now))

(* C17: in every step that takes a name out of the registry, the step is a  *)
(* successful delete of that name by its owner or an admin; and in every    *)
(* reachable state list, status, start, stop, restart, exec, create (check  *)
(* and resume), backup and restore leave every name of the registry in it,  *)
(* as does a delete that is denied or reports failure.  The loss of a       *)
(* container in the runtime is a step of its own and falls under the first  *)
(* part.                                                                    *)
C17_RemovedOnlyByDelete ==
    /\ [][\A name \in DOMAIN vps_state :
            name \notin DOMAIN vps_state' => DeleteStep(name)]_vars
    /\ []OthersKeepNames
    /\ [](\A caller \in Callers, name \in DOMAIN vps_state, force \in BOOLEAN,
             fault \in RuntimeFaults, io \in StorageFaults :
                LET out == slash_delete_out(World, caller, name, force, fault, io)
                IN  out.msg # "removed" => out.w.vps_state = vps_state)

(* C17 witness: one record has been deleted; the container of the record    *)
(* that is left is gone from the runtime, the record is still there, and    *)
(* its owner's delete takes it out.                                         *)
C17_Witness ==
    /\ backup.kind = "pickle"
    /\ Cardinality(DOMAIN pickle_load(backup.data)) <= 1
    /\ \E caller \in Callers, name \in DOMAIN vps_state :
        /\ DOMAIN vps_state = {name}
        /\ caller.id = vps_state[name].owner_id
        /\ docker_client = "client"
        /\ vps_state[name].container_id \notin DOMAIN containers
        /\ slash_delete_out(World, caller, name, FALSE, "none", "ok").w.vps_state = EmptyState

----------------------------------------------------------------------------
(* the step is the second half of a create for name that passed its checks, *)
(* whose runtime call raised nothing, and that reported success             *)
CreateCommitStep(name) ==
    \E task \in BagToSet(tasks), fault \in CreateFaults, io \in StorageFaults,
       now \in Times :
        /\ task.name = name
        /\ slash_create_resume_out(World, task, fault, io, now).exc = "none"
        /\ slash_create_resume_out(World, task, fault, io, now).msg = "created"
        /\ slash_create_resume_out(World, task, fault, io, now).w = WorldAfter
        /\ tasks' = tasks (-) SetToBag({task})
        /\ UNCHANGED docker_client

(* the names in the backup file *)
NamesOnFile == IF backup.kind = "pickle" THEN DOMAIN pickle_load(backup.data) ELSE {}

(* the step is a /restore by a guild administrator that loaded a file       *)
(* holding name                                                             *)
RestoreStep(name) ==
    \E caller \in Callers :
        /\ caller.administrator
        /\ name \in NamesOnFile
        /\ slash_restore_out(World, caller, "ok").w = WorldAfter
        /\ UNCHANGED <<docker_client, tasks>>

(* C18, as stated: in every step that brings a name into the registry, the  *)
(* step is the commit of a create that passed its checks and whose runtime  *)
(* creation succeeded; no /restore brings a name in.                        *)
C18_AddedOnlyByCreate ==
    [][\A name \in DOMAIN vps_state' :
            name \notin DOMAIN vps_state => CreateCommitStep(name)]_vars

(* C18, amended: in every step that brings a name into the registry, the    *)
(* step is the commit of a create that passed its checks and whose runtime  *)
(* creation succeeded, or a /restore that loaded a backup file holding the  *)
(* name; a /restore adds nothing while the file equals the registry, and it *)
(* brings back every name that is on the file and not in the registry, a    *)
(* record whose delete could not rewrite the file included.                 *)
C18_AddedOnlyByCreateOrRestore ==
    /\ [][\A name \in DOMAIN vps_state' :
            name \notin DOMAIN vps_state => CreateCommitStep(name) \/ RestoreStep(name)]_vars
    /\ [](\A caller \in Callers, io \in StorageFaults :
            LET after == slash_restore_out(World, caller, io).w.vps_state
            IN  /\ Persisted(World) => after = vps_state
                /\ (caller.administrator /\ io = "ok")
                        => NamesOnFile \subseteq DOMAIN after
                /\ DOMAIN after \subseteq DOMAIN vps_state \cup NamesOnFile)

(* C18 witness: a record was deleted while the file could not be rewritten: *)
(* the registry holds the other record, the file still holds both, and      *)
(* /restore brings the deleted record back.                                 *)
C18_Witness ==
    \E caller \in Callers, name \in NamesOnFile :
        /\ caller.administrator
        /\ vps_state # EmptyState
        /\ name \notin DOMAIN vps_state
        /\ name \in DOMAIN slash_restore_out(World, caller, "ok").w.vps_state

----------------------------------------------------------------------------
(* two records agree on owner, image, creation time and container handle *)
SameRecord(r1, r2) ==
    /\ r1.owner_id = r2.owner_id
    /\ r1.image = r2.image
    /\ r1.created_at = r2.created_at
    /\ r1.container_id = r2.container_id
    /\ r1.short_id = r2.short_id

(* C19: in every step, a name that is in the registry before and after      *)
(* keeps its owner, image, creation time and container handle; and in every *)
(* reachable state, a create suspended at the await whose name is in the    *)
(* registry by now leaves that record as it is when it resumes, whatever    *)
(* the runtime and the storage do.                                          *)
C19_RecordImmutable ==
    /\ [][\A name \in DOMAIN vps_state \cap DOMAIN vps_state' :
            SameRecord(vps_state[name], vps_state'[name])]_vars
    /\ [](\A task \in BagToSet(tasks), fault \in CreateFaults, io \in StorageFaults,
             now \in Times :
                task.name \in DOMAIN vps_state =>
                    LET after == slash_create_resume_out(World, task, fault, io, now).w.vps_state
                    IN  /\ task.name \in DOMAIN after
                        /\ SameRecord(vps_state[task.name], after[task.name]))

(* C19 witness: two creates for one canonical name are suspended at the     *)
(* await, and a record of that name is in the registry.                     *)
C19_Witness ==
    \E task \in BagToSet(tasks) :
        /\ CopiesIn(task, tasks) = 2
        /\ task.name \in DOMAIN vps_state
        /\ docker_client = "client"

----------------------------------------------------------------------------
(* C20: in every reachable state, a delete or a resumed create that leaves  *)
(* a registry other than the one it found, with the write to the file       *)
(* succeeding, leaves the file equal to the registry it leaves.             *)
C20_PersistAfterMutation ==
    /\ \A caller \in Callers, name \in Names, force \in BOOLEAN, fault \in RuntimeFaults :
            LET out == slash_delete_out(World, caller, name, force, fault, "ok")
            IN  out.w.vps_state # vps_state => out.w.backup = Pickle(out.w.vps_state)
    /\ \A task \in BagToSet(tasks), fault \in CreateFaults, now \in Times :
            LET out == slash_create_resume_out(World, task, fault, "ok", now)
            IN  out.w.vps_state # vps_state => out.w.backup = Pickle(out.w.vps_state)

(* C20 witness: the file does not hold the registry (an earlier write       *)
(* failed); the owner's forced delete of a record changes the registry and  *)
(* leaves the file equal to it.                                             *)
C20_Witness ==
    \E caller \in Callers, name \in DOMAIN vps_state :
        /\ backup # Pickle(vps_state)
        /\ caller.id = vps_state[name].owner_id
        /\ slash_delete_out(World, caller, name, TRUE, "none", "ok").msg = "removed"
        /\ slash_delete_out(World, caller, name, TRUE, "none", "ok").w.vps_state # vps_state
        /\ slash_delete_out(World, caller, name, TRUE, "none", "ok").w.backup
                = Pickle(slash_delete_out(World, caller, name, TRUE, "none", "ok").w.vps_state)

----------------------------------------------------------------------------
(* the write to the file fails: at the open, or after it *)
FailedWrites == StorageFaults \ {"ok"}

(* the file after the next write that succeeds: a /backup by a guild        *)
(* administrator                                                            *)
NextPersist(w) ==
    { slash_backup_out(w, caller, "ok").w.backup :
        caller \in { c \in Callers : c.administrator } }

(* C21: in every reachable state, a delete by the owner or an admin whose   *)
(* removal went through and whose write to the file then fails reports      *)
(* success, raises nothing, and leaves the registry without the name and    *)
(* otherwise as it was; a resumed create whose write fails reports success  *)
(* and leaves its record in the registry; in both cases the next write that *)
(* succeeds leaves the file equal to that registry.                         *)
C21_NoRollback ==
    /\ \A caller \in Callers, name \in DOMAIN vps_state, force \in BOOLEAN,
          fault \in RuntimeFaults, io \in FailedWrites :
            ( /\ Authorized(vps_state[name], caller)
              /\ Removal(name, force, fault).exc \in {"none", "NotFound"} )
            => LET out == slash_delete_out(World, caller, name, force, fault, io)
                   new == [n \in DOMAIN vps_state \ {name} |-> vps_state[n]]
               IN  /\ out.msg = "removed"
                   /\ out.exc = "none"
                   /\ out.w.vps_state = new
                   /\ NextPersist(out.w) = { Pickle(new) }
    /\ \A task \in BagToSet(tasks), fault \in CreateFaults, io \in FailedWrites,
          now \in Times :
            LET out == slash_create_resume_out(World, task, fault, io, now)
            IN  out.exc = "none" =>
                    /\ out.msg = "created"
                    /\ task.name \in DOMAIN out.w.vps_state
                    /\ \A file \in NextPersist(out.w) : file = Pickle(out.w.vps_state)

(* C21 witness: a delete could not rewrite the file: the file still holds a *)
(* name the registry has lost; the owner's delete of the record that is     *)
(* left, with the write failing after the open, takes it out of the         *)
(* registry, and the next /backup writes the registry as it then is.        *)
C21_Witness ==
    \E caller \in Callers, name \in DOMAIN vps_state, gone \in NamesOnFile :
        /\ gone \notin DOMAIN vps_state
        /\ caller.id = vps_state[name].owner_id
        /\ slash_delete_out(World, caller, name, TRUE, "none", "io_fails").msg = "removed"
        /\ slash_delete_out(World, caller, name, TRUE, "none", "io_fails").w.backup = Corrupt
        /\ name \notin DOMAIN slash_delete_out(World, caller, name, TRUE, "none", "io_fails").w.vps_state
        /\ NextPersist(World) = { Pickle(vps_state) }

----------------------------------------------------------------------------
(* names that are not in the registry: the names the commands are invoked   *)
(* with, the names on the backup file and the names of suspended creates    *)
UnmanagedNames ==
    (Names \cup NamesOnFile \cup { task.name : task \in BagToSet(tasks) })
        \ DOMAIN vps_state

(* the handler answered that the name is not managed, raised nothing,       *)
(* issued no runtime call and left the world as it was                      *)
AnsweredNotManaged(out) ==
    /\ out.msg = "not_managed"
    /\ out.exc = "none"
    /\ out.calls = <<>>
    /\ out.w = World

(* C22: for every name that is not in the registry and every caller, admin  *)
(* or not, status, start, stop, restart, exec and delete answer with the    *)
(* not-managed message (never with permission denied), raise nothing, issue *)
(* no runtime call and leave the registry, the file and the runtime as they *)
(* were.                                                                    *)
C22_NotManaged ==
    \A caller \in Callers, name \in UnmanagedNames, fault \in RuntimeFaults :
        /\ AnsweredNotManaged(slash_status_out(World, caller, name, fault))
        /\ AnsweredNotManaged(slash_start_out(World, caller, name, fault))
        /\ AnsweredNotManaged(slash_stop_out(World, caller, name, fault))
        /\ AnsweredNotManaged(slash_restart_out(World, caller, name, fault))
        /\ AnsweredNotManaged(slash_exec_out(World, caller, name, fault))
        /\ \A force \in BOOLEAN, io \in StorageFaults :
                AnsweredNotManaged(slash_delete_out(World, caller, name, force, fault, io))

(* C22 witness: a record was deleted and its name is still on the file; a   *)
(* caller who is neither an admin nor the owner named on the file asks to   *)
(* start and to delete that name while another record is managed, and is    *)
(* told the name is not managed.                                            *)
C22_Witness ==
    \E caller \in Callers, name \in NamesOnFile :
        /\ vps_state # EmptyState
        /\ name \notin DOMAIN vps_state
        /\ ~Authorized(pickle_load(backup.data)[name], caller)
        /\ slash_start_out(World, caller, name, "none").msg = "not_managed"
        /\ slash_delete_out(World, caller, name, TRUE, "none", "ok").msg = "not_managed"

----------------------------------------------------------------------------
(* C23: no start, stop, restart, exec or delete is ever suspended between   *)
(* its lookup of the name and its runtime call, so none resumes to issue a  *)
(* runtime call for a record that is no longer the one in the registry; and *)
(* in every step that takes a name out of the registry, the container of    *)
(* its record is gone from the runtime after the step and the file has been *)
(* written in that same step (it holds the new registry, or is as a failed  *)
(* write leaves it).                                                        *)
C23_PerNameAtomic ==
    /\ [](awaiting = {})
    /\ [](\A co \in awaiting, fault \in RuntimeFaults, io \in StorageFaults :
            after_admin_check_out(World, co, fault, io).calls # <<>>
                => /\ co.name \in DOMAIN vps_state
                   /\ vps_state[co.name] = co.entry)
    /\ [][\A name \in DOMAIN vps_state :
            name \notin DOMAIN vps_state'
                => /\ vps_state[name].container_id \notin DOMAIN containers'
                   /\ backup' \in { save_backup(vps_state', backup, io) : io \in StorageFaults }
                   /\ awaiting' = {}]_vars

(* C23 witness: a record has been deleted, its container removed and the    *)
(* file rewritten; a create is suspended at its await; an admin who does    *)
(* not own the record that is left starts it, passing through the await of  *)
(* member_is_admin, and the runtime calls are issued in that step; a start  *)
(* of the deleted name issues none.                                         *)
C23_Witness ==
    \E caller \in Callers, name \in DOMAIN vps_state, gone \in Names :
        /\ DOMAIN vps_state = {name}
        /\ backup = Pickle(vps_state)
        /\ gone \notin DOMAIN vps_state
        /\ \A cid \in DOMAIN containers : containers[cid].name = name
        /\ tasks # EmptyBag
        /\ reaches_admin_check(World, caller, name)
        /\ slash_start_out(World, caller, name, "none").calls = <<"get", "start">>
        /\ slash_start_out(World, caller, gone, "none").calls = <<>>

====
